---- MODULE Spec2Model ----
(***************************************************************************)
(* Scan-ingestion pipeline of IFI_Bus_Attendence1.                         *)
(*                                                                         *)
(*   - the capture screen (src/app/index.tsx, BarcodeScannerScreen): React *)
(*     state, the barcode handler, reset, camera flip and focus handling;  *)
(*   - the ingestion service (src/attendence-backend/server.js): the       *)
(*     Express handlers of POST /api/scan, GET /api/scans,                 *)
(*     GET /api/scans/:employeeId and GET /api/health.                     *)
(*                                                                         *)
(* SpecClient runs the capture screen, SpecServer the service from an      *)
(* empty table, SpecList its GET /api/scans over tables already filled.    *)
(***************************************************************************)
EXTENDS Integers, Sequences, FiniteSets, TLC

VARIABLES
    \* ---- capture screen: the values of the last committed render
    permission,     \* useCameraPermissions(): "null" | "denied" | "granted"
    scanned,        \* useState(false)
    scannedData,    \* useState('')
    scanTime,       \* useState('')
    facing,         \* useState('back')
    isActive,       \* useState(true)
    \* ---- capture screen: React's queue of state updates not yet rendered
    pending,        \* the state the next render will commit
    \* ---- capture screen: environment
    focused,        \* the navigator has this screen in focus
    alerts,         \* 'Barcode Scanned!' dialogs that are open
    now,            \* wall clock, in ticks
    \* ---- capture screen: history, read by the properties only
    produced,       \* candidates produced since resetScanner last ran
    first,          \* the first of them
    lastOp,         \* the operation that made the last step
    \* ---- ingestion service
    pc,             \* per request: where its handler stands
    route,          \* per request: the route it came in on
    body,           \* per request: req.body (req.params for the by-employee route)
    conn,           \* per request: what became of its sql.connect: "none" (never
                    \*   called) | "connecting" | "failed" | "held" | "closing" |
                    \*   "closed" | "closeFailed"
    sent,           \* per request: the responses written with res.json, in order
    thrown,         \* per request: the handler's promise rejected (an error escaped it)
    failure,        \* per request: the error its catch block received
    result,         \* per request: the recordset its SELECT returned
    pool,           \* the mssql global pool: "none" | "open"
    table,          \* AttendanceScans, in insertion order
    \* ---- ingestion service: history, read by the properties only
    queries         \* per request: the calls of request.query it has made

clientVars == <<permission, scanned, scannedData, scanTime, facing, isActive,
                pending, focused, alerts, now, produced, first, lastOp>>
serverVars == <<pc, route, body, conn, sent, thrown, failure, result, pool, table,
                queries>>
vars == <<clientVars, serverVars>>

(***************************************************************************)
(* Bounds of the model.                                                    *)
(***************************************************************************)
MaxClock == 3          \* the wall clock stops after this many ticks
TicksPerSecond == 2    \* clock ticks in one second
MaxAlerts == 2         \* dialogs open at once
MaxCandidates == 3     \* candidates produced between two resets
MaxReqs == 2           \* requests the service handles, possibly at once
MaxExtra == 2          \* rows the table holds beyond those SELECT TOP returns

(***************************************************************************)
(*                         THE CAPTURE SCREEN                              *)
(***************************************************************************)

\* Barcode payloads the camera can decode (BarcodeScanningResult.data).
Payloads == {"EMP001", "EMP002"}

\* now.toLocaleString('en-US', {..., second: '2-digit'}): the text of an
\* instant, to the second; never the empty string.
FormatTime(t) == <<"time", t \div TicksPerSecond>>

\* The empty string of scannedData and of scanTime.
EmptyData == ""
EmptyTime == <<>>

\* The state held by the useState hooks, as one record.
Rendered ==
    [scanned |-> scanned, scannedData |-> scannedData, scanTime |-> scanTime,
     facing |-> facing, isActive |-> isActive]

NoCandidate == [data |-> EmptyData, time |-> EmptyTime]

ClientInit ==
    /\ permission = "null"
    /\ scanned = FALSE
    /\ scannedData = EmptyData
    /\ scanTime = EmptyTime
    /\ facing = "back"
    /\ isActive = TRUE
    /\ pending = [scanned |-> FALSE, scannedData |-> EmptyData, scanTime |-> EmptyTime,
                  facing |-> "back", isActive |-> TRUE]
    /\ focused = TRUE
    /\ alerts = 0
    /\ now = 0
    /\ produced = 0
    /\ first = NoCandidate
    /\ lastOp = "mount"

\* The mutation of CameraMounted used against C4: the render without its
\* `if (!isActive)` early return.
CameraMountedIgnoringFocus == permission = "granted"

\* The render reaches <CameraView> only past the three early returns.
CameraMounted == permission = "granted" /\ isActive

\* onBarcodeScanned={scanned ? undefined : handleBarCodeScanned}
OnBarcodeScannedSet == ~scanned

\* The mutation of resetScanner used against C19: a reset that leaves the
\* capture time as it was.
resetScannerKeepingTime ==
    /\ pending' = [pending EXCEPT !.scanned = FALSE, !.scannedData = EmptyData]
    /\ produced' = 0
    /\ first' = NoCandidate

\* setScanned(false); setScannedData(''); setScanTime('')
resetScanner ==
    /\ pending' = [pending EXCEPT !.scanned = FALSE, !.scannedData = EmptyData,
                                  !.scanTime = EmptyTime]
    /\ produced' = 0
    /\ first' = NoCandidate

\* The handler of the last committed render: its `scanned` is that render's.
handleBarCodeScanned(data) ==
    IF ~scanned
    THEN /\ produced < MaxCandidates
         /\ alerts < MaxAlerts
         /\ pending' = [pending EXCEPT !.scanned = TRUE, !.scannedData = data,
                                       !.scanTime = FormatTime(now)]
         /\ alerts' = alerts + 1
         /\ produced' = produced + 1
         /\ first' = IF produced = 0
                     THEN [data |-> data, time |-> FormatTime(now)]
                     ELSE first
    ELSE UNCHANGED <<pending, alerts, produced, first>>

\* The mutation of Detection used against C1 and C4: no debounce and no
\* suspension, every detection reaches the handler's body.
DetectionUngated(data) ==
    /\ produced < MaxCandidates
    /\ alerts < MaxAlerts
    /\ pending' = [pending EXCEPT !.scanned = TRUE, !.scannedData = data,
                                  !.scanTime = FormatTime(now)]
    /\ alerts' = alerts + 1
    /\ produced' = produced + 1
    /\ first' = IF produced = 0
                THEN [data |-> data, time |-> FormatTime(now)]
                ELSE first
    /\ lastOp' = "Detection"
    /\ UNCHANGED serverVars
    /\ UNCHANGED <<permission, scanned, scannedData, scanTime, facing, isActive,
                   focused, now>>

\* The camera decodes a barcode. The event reaches the handler only when
\* <CameraView> is rendered and its onBarcodeScanned prop is set.
Detection(data) ==
    /\ IF CameraMounted /\ OnBarcodeScannedSet
       THEN handleBarCodeScanned(data)
       ELSE UNCHANGED <<pending, alerts, produced, first>>
    /\ lastOp' = "Detection"
    /\ UNCHANGED serverVars
    /\ UNCHANGED <<permission, scanned, scannedData, scanTime, facing, isActive,
                   focused, now>>

\* React renders: the queued updates become the state the screen shows.
Commit ==
    /\ pending # Rendered
    /\ scanned' = pending.scanned
    /\ scannedData' = pending.scannedData
    /\ scanTime' = pending.scanTime
    /\ facing' = pending.facing
    /\ isActive' = pending.isActive
    /\ lastOp' = "Commit"
    /\ UNCHANGED serverVars
    /\ UNCHANGED <<permission, pending, focused, alerts, now, produced, first>>

\* The 'Scan Again' button of the result panel.
PressScanAgain ==
    /\ CameraMounted /\ scanned
    /\ resetScanner
    /\ lastOp' = "ScanAgain"
    /\ UNCHANGED serverVars
    /\ UNCHANGED <<permission, scanned, scannedData, scanTime, facing, isActive,
                   focused, alerts, now>>

\* The dialog's 'Scan Again' button.
AlertScanAgain ==
    /\ alerts > 0
    /\ alerts' = alerts - 1
    /\ resetScanner
    /\ lastOp' = "AlertScanAgain"
    /\ UNCHANGED serverVars
    /\ UNCHANGED <<permission, scanned, scannedData, scanTime, facing, isActive,
                   focused, now>>

\* The mutation of AlertOK used against C14: an OK that discards the
\* candidate as 'Scan Again' does.
AlertOKResetting ==
    /\ alerts > 0
    /\ alerts' = alerts - 1
    /\ resetScanner
    /\ lastOp' = "AlertOK"
    /\ UNCHANGED serverVars
    /\ UNCHANGED <<permission, scanned, scannedData, scanTime, facing, isActive,
                   focused, now>>

\* The dialog's 'OK' button: console.log only.
AlertOK ==
    /\ alerts > 0
    /\ alerts' = alerts - 1
    /\ lastOp' = "AlertOK"
    /\ UNCHANGED serverVars
    /\ UNCHANGED <<permission, scanned, scannedData, scanTime, facing, isActive,
                   pending, focused, now, produced, first>>

\* setFacing(current => (current === 'back' ? 'front' : 'back'))
toggleCameraFacing ==
    /\ CameraMounted
    /\ pending' = [pending EXCEPT !.facing = IF @ = "back" THEN "front" ELSE "back"]
    /\ lastOp' = "Flip"
    /\ UNCHANGED serverVars
    /\ UNCHANGED <<permission, scanned, scannedData, scanTime, facing, isActive,
                   focused, alerts, now, produced, first>>

\* The mutation of FocusGained used against C3: regaining focus also resets.
FocusGainedResetting ==
    /\ ~focused
    /\ focused' = TRUE
    /\ pending' = [pending EXCEPT !.isActive = TRUE, !.scanned = FALSE,
                                  !.scannedData = EmptyData, !.scanTime = EmptyTime]
    /\ lastOp' = "FocusGained"
    /\ UNCHANGED serverVars
    /\ UNCHANGED <<permission, scanned, scannedData, scanTime, facing, isActive,
                   alerts, now, produced, first>>

\* useFocusEffect: the callback, run when the screen comes into focus.
FocusGained ==
    /\ ~focused
    /\ focused' = TRUE
    /\ pending' = [pending EXCEPT !.isActive = TRUE]
    /\ lastOp' = "FocusGained"
    /\ UNCHANGED serverVars
    /\ UNCHANGED <<permission, scanned, scannedData, scanTime, facing, isActive,
                   alerts, now, produced, first>>

\* useFocusEffect: the cleanup, run when the screen goes out of focus.
FocusLost ==
    /\ focused
    /\ focused' = FALSE
    /\ pending' = [pending EXCEPT !.isActive = FALSE]
    /\ lastOp' = "FocusLost"
    /\ UNCHANGED serverVars
    /\ UNCHANGED <<permission, scanned, scannedData, scanTime, facing, isActive,
                   alerts, now, produced, first>>

\* useCameraPermissions resolves, or the user answers requestPermission.
PermissionAnswered(granted) ==
    /\ permission \in {"null", "denied"}
    /\ permission' = IF granted THEN "granted" ELSE "denied"
    /\ lastOp' = "Permission"
    /\ UNCHANGED serverVars
    /\ UNCHANGED <<scanned, scannedData, scanTime, facing, isActive, pending,
                   focused, alerts, now, produced, first>>

\* Time passes.
Tick ==
    /\ now < MaxClock
    /\ now' = now + 1
    /\ lastOp' = "Tick"
    /\ UNCHANGED serverVars
    /\ UNCHANGED <<permission, scanned, scannedData, scanTime, facing, isActive,
                   pending, focused, alerts, produced, first>>

ClientNext ==
    \/ \E data \in Payloads : Detection(data)
    \/ Commit
    \/ PressScanAgain
    \/ AlertScanAgain
    \/ AlertOK
    \/ toggleCameraFacing
    \/ FocusGained
    \/ FocusLost
    \/ \E granted \in BOOLEAN : PermissionAnswered(granted)
    \/ Tick

(***************************************************************************)
(*                        THE INGESTION SERVICE                            *)
(***************************************************************************)
Reqs == 1 .. MaxReqs

\* ---- JavaScript values -------------------------------------------------
\* A text is the sequence of its characters; a text whose length the code
\* never reads is kept as a sequence of one chunk.
Undefined == [type |-> "undefined"]
Str(s) == [type |-> "string", val |-> s]
Num(n) == [type |-> "number", val |-> n]

\* ToBoolean, as `!x` and `x || y` apply it.
Truthy(v) ==
    \/ v.type = "string" /\ Len(v.val) > 0
    \/ v.type = "number" /\ v.val # 0

\* x || y
OrElse(x, y) == IF Truthy(x) THEN x ELSE y

\* ---- program constants -------------------------------------------------
MinIdLen == 3        \* employeeId.length < 3
MaxIdLen == 50       \* employeeId.length > 50
TopLimit == 50       \* SELECT TOP 50
InvalidObjectName == 208
ForeignKeyViolation == 547

\* ---- inputs ------------------------------------------------------------
Repeat(c, n) == [i \in 1 .. n |-> c]

EmployeeIdTexts ==
    {<<>>, <<"A", "B">>, <<"E", "M", "P">>, Repeat("E", MaxIdLen), Repeat("E", MaxIdLen + 1)}

\* new Date(text).getTime(): the instant a text denotes; NaN for a text that
\* is no date. Two texts may denote one instant.
NaN == -1
DateParse(text) ==
    CASE text = <<"2024-01-15T09:00:00Z">> -> 1
      [] text = <<"2024-01-15T09:00:00.000Z">> -> 1
      [] text = <<"2024-01-16T18:30:00Z">> -> 2
      [] OTHER -> NaN

ScanDateTimes ==
    {Undefined, Str(<<>>), Str(<<"2024-01-15T09:00:00Z">>),
     Str(<<"2024-01-16T18:30:00Z">>), Str(<<"not a date">>)}

\* The request bodies tried: a complete candidate, and the candidates that
\* differ from it in one field or in the two required fields. recordedAt is
\* a field the handler does not read; one body carries it all the same.
Candidate ==
    [employeeId |-> Str(<<"E", "M", "P">>), scanDateTime |-> Str(<<"2024-01-15T09:00:00Z">>),
     scanType |-> Str(<<"qr">>), deviceInfo |-> Str(<<"Pixel 8">>),
     recordedAt |-> Undefined]

Bodies ==
    {[Candidate EXCEPT !.employeeId = e] : e \in {Undefined} \cup {Str(t) : t \in EmployeeIdTexts}}
    \cup {[Candidate EXCEPT !.scanDateTime = d] : d \in ScanDateTimes}
    \cup {[Candidate EXCEPT !.scanType = t] : t \in {Undefined, Str(<<>>)}}
    \cup {[Candidate EXCEPT !.deviceInfo = t] : t \in {Undefined, Str(<<>>)}}
    \cup {[Candidate EXCEPT !.scanType = Undefined, !.deviceInfo = Undefined]}
    \cup {[Candidate EXCEPT !.recordedAt = Str(<<"client time">>)]}
    \cup {[Candidate EXCEPT !.employeeId = Str(<<"A", "B">>), !.scanDateTime = Undefined],
          [Candidate EXCEPT !.employeeId = Str(Repeat("E", MaxIdLen + 1)), !.scanDateTime = Str(<<>>)],
          [Candidate EXCEPT !.employeeId = Undefined, !.scanDateTime = Undefined]}

\* The errors sql.connect, request.query and pool.close reject with: a code
\* (ConnectionError, RequestError), a number (the server's message number),
\* both or neither.
ErrorCodes == {Undefined, Str(<<"ELOGIN">>), Str(<<"ESOCKET">>), Str(<<"EREQUEST">>)}
ErrorNumbers == {Undefined, Num(InvalidObjectName), Num(ForeignKeyViolation), Num(2627)}
Errors ==
    {[code |-> c, number |-> n, message |-> Str(<<"driver text", c, n>>)] :
        c \in ErrorCodes, n \in ErrorNumbers}

\* Those tried for each call: a ConnectionError carries no number; for
\* pool.close() an error with neither code nor number.
ConnectErrors == {e \in Errors : e.number = Undefined}
QueryErrors == Errors
CloseErrors == {e \in Errors : e.code = Undefined /\ e.number = Undefined}

\* What request.query rejects with by itself, whatever the server would say:
\* on a pool that was closed (ConnectionError), and for a Date parameter that
\* is Invalid Date (RequestError, parameter validation).
ClosedPoolError ==
    [code |-> Str(<<"ECONNCLOSED">>), number |-> Undefined,
     message |-> Str(<<"Connection is closed.">>)]
InvalidDateError ==
    [code |-> Str(<<"EPARAM">>), number |-> Undefined,
     message |-> Str(<<"Validation failed for parameter 'scanDateTime'. Invalid date.">>)]

\* ---- responses ---------------------------------------------------------
\* `new Date().toISOString()` of the server's clock.
ServerNow == Str(<<"server time">>)

MissingFieldResponse ==
    [status |-> 400,
     json |-> [success |-> FALSE,
               message |-> "Employee ID and scan time are required"]]

InvalidFormatResponse ==
    [status |-> 400,
     json |-> [success |-> FALSE,
               message |-> "Employee ID must be between 3 and 50 characters"]]

\* No response: validation passed.
Pass == [status |-> "none"]

\* Nothing yet in a request's body or failure.
None == [type |-> "none"]

\* The mutation of Validate used against C5: scanDateTime is not required.
ValidateEmployeeIdOnly(b) ==
    IF ~Truthy(b.employeeId)
    THEN MissingFieldResponse
    ELSE IF Len(b.employeeId.val) < MinIdLen \/ Len(b.employeeId.val) > MaxIdLen
         THEN InvalidFormatResponse
         ELSE Pass

\* The mutation of Validate used against C6: the lower limit is off by one.
ValidateLooseMinimum(b) ==
    IF ~Truthy(b.employeeId) \/ ~Truthy(b.scanDateTime)
    THEN MissingFieldResponse
    ELSE IF Len(b.employeeId.val) < MinIdLen - 1 \/ Len(b.employeeId.val) > MaxIdLen
         THEN InvalidFormatResponse
         ELSE Pass

\* The two checks of POST /api/scan, in the order they are made: the response
\* of the first that fails, or Pass.
Validate(b) ==
    IF ~Truthy(b.employeeId) \/ ~Truthy(b.scanDateTime)
    THEN MissingFieldResponse
    ELSE IF Len(b.employeeId.val) < MinIdLen \/ Len(b.employeeId.val) > MaxIdLen
         THEN InvalidFormatResponse
         ELSE Pass

\* The mutation of InsertParameters used against C7: deviceInfo defaults to
\* the sentinel of scanType.
InsertParametersOneDefault(b) ==
    [employeeId |-> b.employeeId.val,
     scanDateTime |-> DateParse(b.scanDateTime.val),
     scanType |-> OrElse(b.scanType, Str(<<"UNKNOWN">>)).val,
     deviceInfo |-> OrElse(b.deviceInfo, Str(<<"UNKNOWN">>)).val]

\* The parameters bound with request.input.
InsertParameters(b) ==
    [employeeId |-> b.employeeId.val,
     scanDateTime |-> DateParse(b.scanDateTime.val),
     scanType |-> OrElse(b.scanType, Str(<<"UNKNOWN">>)).val,
     deviceInfo |-> OrElse(b.deviceInfo, Str(<<"Mobile Scanner">>)).val]

\* The row the INSERT adds for request r.
InsertedRow(r, b) ==
    [EmployeeID |-> InsertParameters(b).employeeId,
     ScanDateTime |-> InsertParameters(b).scanDateTime,
     BarcodeType |-> InsertParameters(b).scanType,
     DeviceInfo |-> InsertParameters(b).deviceInfo,
     by |-> r]

\* The mutation of CreatedResponse used against C16: recordedAt is the
\* client's when the body carries one.
CreatedResponseClientTime(b) ==
    [status |-> 201,
     json |-> [success |-> TRUE,
               message |-> "Scan recorded successfully",
               data |-> [employeeId |-> b.employeeId, scanDateTime |-> b.scanDateTime,
                         scanType |-> b.scanType,
                         recordedAt |-> OrElse(b.recordedAt, ServerNow)]]]

\* The body of the 201 response, built once request.query has resolved.
CreatedResponse(b) ==
    [status |-> 201,
     json |-> [success |-> TRUE,
               message |-> "Scan recorded successfully",
               data |-> [employeeId |-> b.employeeId, scanDateTime |-> b.scanDateTime,
                         scanType |-> b.scanType, recordedAt |-> ServerNow]]]

\* The mutation of Classify used against C9: the numbers are tested before
\* the codes.
ClassifyNumberFirst(error) ==
    IF error.number = Num(InvalidObjectName)
    THEN [statusCode |-> 500, errorMessage |-> "Table not found. Check table name in database."]
    ELSE IF error.number = Num(ForeignKeyViolation)
    THEN [statusCode |-> 400, errorMessage |-> "Employee ID not found in system."]
    ELSE IF error.code = Str(<<"ELOGIN">>)
    THEN [statusCode |-> 401, errorMessage |-> "Database login failed. Check credentials."]
    ELSE IF error.code = Str(<<"ESOCKET">>)
    THEN [statusCode |-> 503,
          errorMessage |-> "Cannot connect to SQL Server. Check server address and firewall."]
    ELSE [statusCode |-> 500, errorMessage |-> "Failed to record scan"]

\* The if / else-if chain of the catch block of POST /api/scan.
Classify(error) ==
    IF error.code = Str(<<"ELOGIN">>)
    THEN [statusCode |-> 401, errorMessage |-> "Database login failed. Check credentials."]
    ELSE IF error.code = Str(<<"ESOCKET">>)
    THEN [statusCode |-> 503,
          errorMessage |-> "Cannot connect to SQL Server. Check server address and firewall."]
    ELSE IF error.number = Num(InvalidObjectName)
    THEN [statusCode |-> 500, errorMessage |-> "Table not found. Check table name in database."]
    ELSE IF error.number = Num(ForeignKeyViolation)
    THEN [statusCode |-> 400, errorMessage |-> "Employee ID not found in system."]
    ELSE [statusCode |-> 500, errorMessage |-> "Failed to record scan"]

ErrorResponse(error) ==
    [status |-> Classify(error).statusCode,
     json |-> [success |-> FALSE,
               message |-> Classify(error).errorMessage,
               error |-> error.message,
               errorCode |-> OrElse(error.code, error.number)]]

ServerInit ==
    /\ pc = [r \in Reqs |-> "idle"]
    /\ route = [r \in Reqs |-> "none"]
    /\ body = [r \in Reqs |-> None]
    /\ conn = [r \in Reqs |-> "none"]
    /\ sent = [r \in Reqs |-> <<>>]
    /\ thrown = [r \in Reqs |-> FALSE]
    /\ failure = [r \in Reqs |-> None]
    /\ result = [r \in Reqs |-> <<>>]
    /\ pool = "none"
    /\ table = <<>>
    /\ queries = [r \in Reqs |-> 0]

\* res.status(..).json(..): the response goes out and the handler goes on.
Send(r, response) == sent' = [sent EXCEPT ![r] = Append(@, response)]

\* The handler of request r returns (or its promise settles).
Finish(r) == pc' = [pc EXCEPT ![r] = "done"]

\* POST /api/scan arrives: the handler runs up to its first await.
PostScan(r, b) ==
    /\ pc[r] = "idle"
    /\ route' = [route EXCEPT ![r] = "scan"]
    /\ body' = [body EXCEPT ![r] = b]
    /\ IF Validate(b) = Pass
       THEN /\ pc' = [pc EXCEPT ![r] = "connecting"]
            /\ conn' = [conn EXCEPT ![r] = "connecting"]
            /\ UNCHANGED sent
       ELSE /\ Send(r, Validate(b))
            /\ Finish(r)
            /\ UNCHANGED conn
    /\ UNCHANGED <<thrown, failure, result, pool, table, queries>>
    /\ UNCHANGED clientVars

\* GET /api/scans arrives.
GetScans(r) ==
    /\ pc[r] = "idle"
    /\ route' = [route EXCEPT ![r] = "scans"]
    /\ pc' = [pc EXCEPT ![r] = "connecting"]
    /\ conn' = [conn EXCEPT ![r] = "connecting"]
    /\ UNCHANGED <<body, sent, thrown, failure, result, pool, table, queries>>
    /\ UNCHANGED clientVars

\* GET /api/scans/:employeeId arrives; req.params is kept as the body.
GetScansByEmployee(r, id) ==
    /\ pc[r] = "idle"
    /\ route' = [route EXCEPT ![r] = "employee"]
    /\ body' = [body EXCEPT ![r] = [employeeId |-> Str(id)]]
    /\ pc' = [pc EXCEPT ![r] = "connecting"]
    /\ conn' = [conn EXCEPT ![r] = "connecting"]
    /\ UNCHANGED <<sent, thrown, failure, result, pool, table, queries>>
    /\ UNCHANGED clientVars

\* GET /api/health arrives: testConnection() runs up to its first await.
GetHealth(r) ==
    /\ pc[r] = "idle"
    /\ route' = [route EXCEPT ![r] = "health"]
    /\ pc' = [pc EXCEPT ![r] = "connecting"]
    /\ conn' = [conn EXCEPT ![r] = "connecting"]
    /\ UNCHANGED <<body, sent, thrown, failure, result, pool, table, queries>>
    /\ UNCHANGED clientVars

HealthResponse(dbConnected) ==
    [status |-> 200,
     json |-> [status |-> "ok",
               database |-> IF dbConnected THEN "connected" ELSE "disconnected"]]

ScansFailedResponse ==
    [status |-> 500, json |-> [success |-> FALSE, message |-> "Failed to fetch scans"]]

EmployeeFailedResponse ==
    [status |-> 500, json |-> [success |-> FALSE, message |-> "Server error"]]

\* What the catch block of request r's handler sends for an error.
CatchResponse(r, error) ==
    CASE route[r] = "scan" -> ErrorResponse(error)
      [] route[r] = "scans" -> ScansFailedResponse
      [] route[r] = "employee" -> EmployeeFailedResponse
      [] route[r] = "health" -> HealthResponse(FALSE)

\* An awaited call of request r rejects before any response was sent: the
\* catch block answers and the handler ends. Nothing closes the pool here.
Catch(r, error) ==
    /\ failure' = [failure EXCEPT ![r] = error]
    /\ Send(r, CatchResponse(r, error))
    /\ Finish(r)

\* await sql.connect(dbConfig) resolves with the global pool, created if
\* there is none; the handler runs on to its next await.
ConnectResolve(r) ==
    /\ pc[r] = "connecting"
    /\ IF route[r] = "health"
       THEN \* pool.close() is called at once
            /\ conn' = [conn EXCEPT ![r] = "closing"]
            /\ pc' = [pc EXCEPT ![r] = "closing"]
            /\ pool' = "none"
            /\ UNCHANGED queries
       ELSE \* request.query(..) is called
            /\ conn' = [conn EXCEPT ![r] = "held"]
            /\ pc' = [pc EXCEPT ![r] = "querying"]
            /\ pool' = "open"
            /\ queries' = [queries EXCEPT ![r] = @ + 1]
    /\ UNCHANGED <<route, body, sent, thrown, failure, result, table>>
    /\ UNCHANGED clientVars

\* await sql.connect(dbConfig) rejects.
ConnectReject(r, error) ==
    /\ pc[r] = "connecting"
    /\ conn' = [conn EXCEPT ![r] = "failed"]
    /\ Catch(r, error)
    /\ UNCHANGED <<route, body, thrown, result, pool, table, queries>>
    /\ UNCHANGED clientVars

\* The rows of a SELECT, without the model's own column.
Columns(row) ==
    [EmployeeID |-> row.EmployeeID, ScanDateTime |-> row.ScanDateTime,
     BarcodeType |-> row.BarcodeType, DeviceInfo |-> row.DeviceInfo]

IsSortedDesc(rs) ==
    \A i \in 1 .. Len(rs) - 1 : rs[i].ScanDateTime >= rs[i + 1].ScanDateTime

\* The orders of the rows at the places S of a table, latest first: any of
\* the latest comes first, rows of one instant in either order.
RECURSIVE SortedOrders(_, _)
SortedOrders(rows, S) ==
    IF S = {}
    THEN {<<>>}
    ELSE LET latest == {i \in S : \A j \in S : rows[i].ScanDateTime >= rows[j].ScanDateTime}
         IN UNION {{<<Columns(rows[i])>> \o rest : rest \in SortedOrders(rows, S \ {i})} :
                      i \in latest}

\* ORDER BY ScanDateTime DESC: the orders the server may return rows in.
OrderByScanDateTimeDesc(rows) == SortedOrders(rows, DOMAIN rows)

\* The mutation of Top used against C15: a SELECT without its TOP.
TopUnlimited(n, rs) == rs

\* TOP n
Top(n, rs) == SubSeq(rs, 1, IF Len(rs) < n THEN Len(rs) ELSE n)

\* WHERE EmployeeID = @employeeId
WhereEmployee(rows, id) == SelectSeq(rows, LAMBDA row : row.EmployeeID = id)

\* The mutation of Insert used against C8: a store that drops a row equal to
\* one it holds.
InsertUnlessPresent(rows, row) ==
    IF \E i \in 1 .. Len(rows) : Columns(rows[i]) = Columns(row)
    THEN rows
    ELSE Append(rows, row)

\* INSERT INTO AttendanceScans (..) VALUES (..): one row more, whatever the
\* table holds.
Insert(rows, row) == Append(rows, row)

\* The store can execute request r's statement: its pool is open and every
\* bound parameter is a value of its column's type (DateTime2 takes no NaN).
StoreAccepts(r) ==
    /\ pool = "open"
    /\ route[r] = "scan" => InsertParameters(body[r]).scanDateTime # NaN

\* await request.query(..) resolves; the handler runs on to its next await.
QueryResolve(r) ==
    /\ pc[r] = "querying"
    /\ StoreAccepts(r)
    /\ CASE route[r] = "scan" ->
              \* the row is in; 201 is sent; then pool.close() is called
              /\ table' = Insert(table, InsertedRow(r, body[r]))
              /\ Send(r, CreatedResponse(body[r]))
              /\ UNCHANGED result
         [] route[r] = "scans" ->
              /\ \E rs \in OrderByScanDateTimeDesc(table) :
                    result' = [result EXCEPT ![r] = Top(TopLimit, rs)]
              /\ UNCHANGED <<table, sent>>
         [] route[r] = "employee" ->
              /\ \E rs \in OrderByScanDateTimeDesc(WhereEmployee(table, body[r].employeeId.val)) :
                    result' = [result EXCEPT ![r] = rs]
              /\ UNCHANGED <<table, sent>>
    /\ conn' = [conn EXCEPT ![r] = "closing"]
    /\ pc' = [pc EXCEPT ![r] = "closing"]
    /\ pool' = "none"
    /\ UNCHANGED <<route, body, thrown, failure, queries>>
    /\ UNCHANGED clientVars

\* The errors request r's request.query can reject with: on a closed pool
\* the driver's own, for an Invalid Date the driver's own, else whatever the
\* server or the network answers.
QueryRejections(r) ==
    IF pool # "open"
    THEN {ClosedPoolError}
    ELSE IF route[r] = "scan" /\ InsertParameters(body[r]).scanDateTime = NaN
         THEN {InvalidDateError}
         ELSE QueryErrors

\* The mutation of QueryReject used against C13: a handler that runs its
\* statement once more before it gives up.
QueryRejectRetrying(r, error) ==
    /\ pc[r] = "querying"
    /\ error \in QueryRejections(r)
    /\ IF queries[r] < 2
       THEN /\ failure' = [failure EXCEPT ![r] = error]
            /\ queries' = [queries EXCEPT ![r] = @ + 1]
            /\ UNCHANGED <<pc, sent>>
       ELSE /\ Catch(r, error)
            /\ UNCHANGED queries
    /\ UNCHANGED <<route, body, conn, thrown, result, pool, table>>
    /\ UNCHANGED clientVars

\* await request.query(..) rejects: control goes to the catch block, past
\* the pool.close() of the try block.
QueryReject(r, error) ==
    /\ pc[r] = "querying"
    /\ error \in QueryRejections(r)
    /\ Catch(r, error)
    /\ UNCHANGED <<route, body, conn, thrown, result, pool, table, queries>>
    /\ UNCHANGED clientVars

ScansResponse(rs) ==
    [status |-> 200, json |-> [success |-> TRUE, count |-> Len(rs), scans |-> rs]]

EmployeeResponse(id, rs) ==
    [status |-> 200,
     json |-> [success |-> TRUE, employeeId |-> id, count |-> Len(rs), scans |-> rs]]

\* await pool.close() resolves.
CloseResolve(r) ==
    /\ pc[r] = "closing"
    /\ conn' = [conn EXCEPT ![r] = "closed"]
    /\ CASE route[r] = "scan" -> UNCHANGED sent
         [] route[r] = "scans" -> Send(r, ScansResponse(result[r]))
         [] route[r] = "employee" -> Send(r, EmployeeResponse(body[r].employeeId, result[r]))
         [] route[r] = "health" -> Send(r, HealthResponse(TRUE))
    /\ Finish(r)
    /\ UNCHANGED <<route, body, thrown, failure, result, pool, table, queries>>
    /\ UNCHANGED clientVars

\* await pool.close() rejects. POST /api/scan has sent its 201 by then: the
\* res.json of its catch block throws (the headers are sent) and the error
\* escapes the handler. The other routes have sent nothing yet.
CloseReject(r, error) ==
    /\ pc[r] = "closing"
    /\ conn' = [conn EXCEPT ![r] = "closeFailed"]
    /\ IF route[r] = "scan"
       THEN /\ failure' = [failure EXCEPT ![r] = error]
            /\ thrown' = [thrown EXCEPT ![r] = TRUE]
            /\ Finish(r)
            /\ UNCHANGED sent
       ELSE /\ Catch(r, error)
            /\ UNCHANGED thrown
    /\ UNCHANGED <<route, body, result, pool, table, queries>>
    /\ UNCHANGED clientVars

ServerNext ==
    \/ \E r \in Reqs, b \in Bodies : PostScan(r, b)
    \/ \E r \in Reqs : GetScans(r)
    \/ \E r \in Reqs, id \in {<<"E", "M", "P">>, Repeat("E", MaxIdLen)} : GetScansByEmployee(r, id)
    \/ \E r \in Reqs : GetHealth(r)
    \/ \E r \in Reqs : ConnectResolve(r)
    \/ \E r \in Reqs, e \in ConnectErrors : ConnectReject(r, e)
    \/ \E r \in Reqs : QueryResolve(r)
    \/ \E r \in Reqs, e \in QueryErrors \cup {ClosedPoolError, InvalidDateError} : QueryReject(r, e)
    \/ \E r \in Reqs : CloseResolve(r)
    \/ \E r \in Reqs, e \in CloseErrors : CloseReject(r, e)

\* ---- the service over a table that earlier ingests have filled ----------
\* The instant of the i-th of n rows: ingested in the order of their
\* instants, against it, or in order with the two earliest at one instant.
StoredInstant(order, n, i) ==
    CASE order = "ascending" -> i
      [] order = "descending" -> n + 1 - i
      [] order = "tied" -> IF i <= 2 THEN 1 ELSE i - 1

\* The i-th row: the INSERT of an accepted candidate, of one of two employees.
StoredRow(order, n, i) ==
    [InsertedRow(0, Candidate) EXCEPT
        !.EmployeeID = IF i % 2 = 1 THEN <<"E", "M", "P">> ELSE Repeat("E", MaxIdLen),
        !.ScanDateTime = StoredInstant(order, n, i)]

\* The numbers of rows tried: few, and around the limit of SELECT TOP.
StoredSizes == (0 .. 3) \cup (TopLimit - 1 .. TopLimit + MaxExtra)

StoredTables ==
    {[i \in 1 .. n |-> StoredRow(order, n, i)] :
        n \in StoredSizes, order \in {"ascending", "descending", "tied"}}

ListInit ==
    /\ ClientInit
    /\ pc = [r \in Reqs |-> "idle"]
    /\ route = [r \in Reqs |-> "none"]
    /\ body = [r \in Reqs |-> None]
    /\ conn = [r \in Reqs |-> "none"]
    /\ sent = [r \in Reqs |-> <<>>]
    /\ thrown = [r \in Reqs |-> FALSE]
    /\ failure = [r \in Reqs |-> None]
    /\ result = [r \in Reqs |-> <<>>]
    /\ pool = "none"
    /\ table \in StoredTables
    /\ queries = [r \in Reqs |-> 0]

\* GET /api/scans, possibly several at once; of each call one rejection.
ListNext ==
    \/ \E r \in Reqs : GetScans(r)
    \/ \E r \in Reqs : ConnectResolve(r)
    \/ \E r \in Reqs, e \in {x \in ConnectErrors : x.code = Str(<<"ESOCKET">>)} :
          ConnectReject(r, e)
    \/ \E r \in Reqs : QueryResolve(r)
    \/ \E r \in Reqs,
          e \in {ClosedPoolError}
                \cup {x \in QueryErrors :
                        x.code = Undefined /\ x.number = Num(InvalidObjectName)} :
          QueryReject(r, e)
    \/ \E r \in Reqs : CloseResolve(r)
    \/ \E r \in Reqs, e \in CloseErrors : CloseReject(r, e)

(***************************************************************************)
(*                          SPECIFICATIONS                                 *)
(***************************************************************************)
Init == ClientInit /\ ServerInit

SpecClient == Init /\ [][ClientNext]_vars

SpecServer == Init /\ [][ServerNext]_vars

SpecList == ListInit /\ [][ListNext]_vars

(***************************************************************************)
(*                  PROPERTIES OF THE CAPTURE SCREEN                       *)
(***************************************************************************)
captureVars == <<pending.scanned, pending.scannedData, pending.scanTime,
                 scanned, scannedData, scanTime, alerts, produced, first>>

C2_OnlyFirstDetectionCaptures ==
    /\ produced <= 1
    /\ pending.scanned /\ produced > 0 =>
          /\ pending.scannedData = first.data
          /\ pending.scanTime = first.time

\* C3 - Reset transitions, as claimed: when a screen whose loss of focus was
\* rendered regains focus, the machine is Idle (not even the render to come
\* holds a candidate).
C3_FocusRegainResets ==
    (lastOp = "FocusGained" /\ ~isActive) =>
        ~pending.scanned /\ pending.scannedData = EmptyData

\* C3 - Reset transitions, amended: Scan Again (either button) queues
\* scanned = false, scannedData = '' and scanTime = '', and once that render
\* is committed the handler is attached again; regaining focus queues
\* isActive = true and leaves the capture state, rendered and queued, as it was.
C3_ResetTransitions ==
    [][/\ lastOp' \in {"ScanAgain", "AlertScanAgain"} =>
            /\ ~pending'.scanned
            /\ pending'.scannedData = EmptyData
            /\ pending'.scanTime = EmptyTime
       /\ (lastOp' = "Commit" /\ ~scanned') => OnBarcodeScannedSet'
       /\ lastOp' = "FocusGained" =>
            /\ pending'.isActive
            /\ UNCHANGED captureVars]_vars

\* The screen has regained focus while it held a candidate, and holds it still.
C3_Witness ==
    /\ lastOp = "FocusGained"
    /\ scanned /\ pending.scanned
    /\ scannedData \in Payloads

\* C4 - Focus suspension: while isActive = false is rendered, a detection is
\* not processed: nothing of the capture state changes, rendered or queued.
C4_FocusSuspension ==
    [][(~isActive /\ lastOp' = "Detection") => UNCHANGED captureVars]_vars

\* A detection has arrived at an Idle screen that had lost focus.
C4_Witness ==
    /\ lastOp = "Detection"
    /\ permission = "granted" /\ ~isActive /\ ~focused
    /\ ~scanned /\ ~pending.scanned

(***************************************************************************)
(*                PROPERTIES OF THE INGESTION SERVICE                      *)
(***************************************************************************)
\* The rows request r has written.
RowsBy(r) == SelectSeq(table, LAMBDA row : row.by = r)

\* The requests answered 201.
Accepted == {r \in Reqs : \E i \in 1 .. Len(sent[r]) : sent[r][i].status = 201}

\* A field the request does not carry (or carries empty).
Absent(v) == v = Undefined \/ v = Str(<<>>)

IsScan(r) == route[r] = "scan"

\* C5 - MissingField: a POST /api/scan without employeeId or without
\* scanDateTime is answered 400 with the missing-field message, once; it
\* never called sql.connect and wrote no row.
C5_MissingField ==
    \A r \in Reqs :
        (IsScan(r) /\ (Absent(body[r].employeeId) \/ Absent(body[r].scanDateTime))) =>
            /\ pc[r] = "done"
            /\ Len(sent[r]) = 1
            /\ sent[r][1].status = 400
            /\ sent[r][1].json = [success |-> FALSE,
                                  message |-> "Employee ID and scan time are required"]
            /\ conn[r] = "none"
            /\ RowsBy(r) = <<>>

\* Requests without employeeId, and with one but without scanDateTime, have
\* been answered.
C5_Witness ==
    \E r1, r2 \in Reqs :
        /\ IsScan(r1) /\ body[r1].employeeId = Undefined /\ Len(sent[r1]) = 1
        /\ IsScan(r2) /\ body[r2].employeeId = Str(<<"E", "M", "P">>)
        /\ body[r2].scanDateTime = Undefined /\ Len(sent[r2]) = 1

\* An employeeId that is a text of a length outside [3, 50].
OutOfRange(v) ==
    v.type = "string" /\ (Len(v.val) < MinIdLen \/ Len(v.val) > MaxIdLen)

LengthMessage == "Employee ID must be between 3 and 50 characters"

\* C6 - InvalidFormat, as claimed: every POST /api/scan whose employeeId is a
\* text shorter than 3 or longer than 50, scanDateTime present, is answered
\* with the length message.
C6_EveryShortIdIsInvalidFormat ==
    \A r \in Reqs :
        (IsScan(r) /\ OutOfRange(body[r].employeeId) /\ ~Absent(body[r].scanDateTime)) =>
            /\ Len(sent[r]) = 1
            /\ sent[r][1].json.message = LengthMessage

\* C6 - InvalidFormat, amended: an employeeId of 1 or 2 characters or of more
\* than 50, scanDateTime present, is answered 400 with the length message,
\* which is not the missing-field message, without sql.connect and without
\* a row; the presence check comes first: the empty employeeId, and any
\* employeeId when scanDateTime is absent, gets the missing-field message.
C6_InvalidFormat ==
    \A r \in Reqs : IsScan(r) =>
        /\ (OutOfRange(body[r].employeeId) /\ Len(body[r].employeeId.val) > 0
              /\ ~Absent(body[r].scanDateTime)) =>
                /\ pc[r] = "done"
                /\ Len(sent[r]) = 1
                /\ sent[r][1].status = 400
                /\ sent[r][1].json = [success |-> FALSE, message |-> LengthMessage]
                /\ sent[r][1] # MissingFieldResponse
                /\ conn[r] = "none"
                /\ RowsBy(r) = <<>>
        /\ (OutOfRange(body[r].employeeId)
              /\ (Len(body[r].employeeId.val) = 0 \/ Absent(body[r].scanDateTime))) =>
                /\ Len(sent[r]) = 1
                /\ sent[r][1] = MissingFieldResponse

\* A 2-character and a 51-character employeeId have been rejected for their
\* length.
C6_Witness ==
    \E r1, r2 \in Reqs :
        /\ IsScan(r1) /\ IsScan(r2)
        /\ OutOfRange(body[r1].employeeId) /\ OutOfRange(body[r2].employeeId)
        /\ Len(body[r1].employeeId.val) = MinIdLen - 1
        /\ Len(body[r2].employeeId.val) = MaxIdLen + 1
        /\ \A r \in {r1, r2} : Len(sent[r]) = 1 /\ sent[r][1].json.message = LengthMessage

\* A candidate that passes both checks.
ValidCandidate(b) ==
    /\ b.employeeId.type = "string"
    /\ Len(b.employeeId.val) >= MinIdLen /\ Len(b.employeeId.val) <= MaxIdLen
    /\ ~Absent(b.scanDateTime)

\* request.query of request r has resolved.
InsertAcknowledged(r) == IsScan(r) /\ conn[r] \in {"closing", "closed", "closeFailed"}

\* The record the claim expects for a body.
ExpectedRecord(b) ==
    [EmployeeID |-> b.employeeId.val,
     ScanDateTime |-> DateParse(b.scanDateTime.val),
     BarcodeType |-> IF Absent(b.scanType) THEN <<"UNKNOWN">> ELSE b.scanType.val,
     DeviceInfo |-> IF Absent(b.deviceInfo) THEN <<"Mobile Scanner">> ELSE b.deviceInfo.val]

\* C7 - Persist with defaults: a valid candidate whose insert the store has
\* acknowledged has written exactly one row: its employeeId, the instant its
\* scanDateTime denotes, its scanType or "UNKNOWN", its deviceInfo or "Mobile
\* Scanner"; and it was answered 201, once.
C7_PersistWithDefaults ==
    \A r \in Reqs :
        (InsertAcknowledged(r) /\ ValidCandidate(body[r])) =>
            /\ Len(RowsBy(r)) = 1
            /\ Columns(RowsBy(r)[1]) = ExpectedRecord(body[r])
            /\ RowsBy(r)[1].ScanDateTime # NaN
            /\ Len(sent[r]) = 1
            /\ sent[r][1].status = 201
            /\ sent[r][1].json.success

\* A candidate without scanType and deviceInfo has been stored and answered.
C7_Witness ==
    \E r \in Reqs :
        /\ InsertAcknowledged(r) /\ pc[r] = "done"
        /\ body[r].scanType = Undefined /\ body[r].deviceInfo = Undefined
        /\ Len(RowsBy(r)) = 1
        /\ RowsBy(r)[1].BarcodeType = <<"UNKNOWN">>
        /\ RowsBy(r)[1].DeviceInfo = <<"Mobile Scanner">>

\* C8 - One record per accepted submission, no dedup: the table holds as many
\* rows as requests were answered 201, one by each of them (also when two
\* carried the same candidate), and none by any other request.
C8_OneRecordPerAccepted ==
    /\ Len(table) = Cardinality(Accepted)
    /\ \A r \in Reqs : Len(RowsBy(r)) = IF r \in Accepted THEN 1 ELSE 0
    /\ \A r \in Reqs :
          (Len(sent[r]) > 0 /\ sent[r][1].status >= 400) => RowsBy(r) = <<>>

\* The same candidate was submitted twice and accepted twice, and another
\* request was refused.
C8_Witness ==
    /\ \E r1, r2 \in Reqs :
          /\ r1 # r2 /\ IsScan(r1) /\ IsScan(r2)
          /\ body[r1] = body[r2]
          /\ {r1, r2} \subseteq Accepted
          /\ Len(table) = 2
          /\ Columns(table[1]) = Columns(table[2])

\* The catch block of POST /api/scan has answered request r.
CaughtFailure(r) == IsScan(r) /\ failure[r] # None /\ ~thrown[r]

\* The status the claim gives a failure.
TaxonomyStatus(e) ==
    CASE e.code = Str(<<"ELOGIN">>) -> 401
      [] e.code = Str(<<"ESOCKET">>) -> 503
      [] e.code \notin {Str(<<"ELOGIN">>), Str(<<"ESOCKET">>)}
            /\ e.number = Num(208) -> 500
      [] e.code \notin {Str(<<"ELOGIN">>), Str(<<"ESOCKET">>)}
            /\ e.number = Num(547) -> 400
      [] OTHER -> 500

\* C9 - Error taxonomy: a failure of connecting or inserting is answered
\* once, with the status of the first kind it matches (ELOGIN 401, ESOCKET
\* 503, 208 500, 547 400, else 500) and the body {success: false, message,
\* error, errorCode}, errorCode being the code or, without one, the number.
C9_ErrorTaxonomy ==
    \A r \in Reqs : CaughtFailure(r) =>
        /\ Len(sent[r]) = 1
        /\ sent[r][1].status = TaxonomyStatus(failure[r])
        /\ DOMAIN sent[r][1].json = {"success", "message", "error", "errorCode"}
        /\ sent[r][1].json.success = FALSE
        /\ sent[r][1].json.error = failure[r].message
        /\ sent[r][1].json.errorCode =
              IF failure[r].code # Undefined THEN failure[r].code ELSE failure[r].number

\* An insert has failed with code ELOGIN and number 208 at once and was
\* answered 401, and another with number 547 alone was answered 400.
C9_Witness ==
    \E r1, r2 \in Reqs :
        /\ CaughtFailure(r1) /\ CaughtFailure(r2)
        /\ failure[r1].code = Str(<<"ELOGIN">>) /\ failure[r1].number = Num(208)
        /\ sent[r1][1].status = 401
        /\ failure[r2].code = Undefined /\ failure[r2].number = Num(547)
        /\ sent[r2][1].status = 400 /\ sent[r2][1].json.errorCode = Num(547)

\* C10 - Guaranteed connection release, as claimed: a request that has ended
\* and had acquired the pool has called pool.close() on it.
C10_ConnectionReleased ==
    \A r \in Reqs : pc[r] = "done" => conn[r] # "held"

\* The store is healthy: no call was rejected by the server or the network.
HealthyStore == \A r \in Reqs : failure[r] \notin Errors

\* A candidate that passes both checks and whose scanDateTime is an instant.
StorableCandidate(b) ==
    ValidCandidate(b) /\ DateParse(b.scanDateTime.val) # NaN

\* C11 - Request independence, as claimed: against a healthy store no
\* request's insert or query fails because another request closed the pool,
\* and every storable POST /api/scan that has ended was answered 201 and has
\* written its row.
C11_RequestIndependence ==
    HealthyStore =>
        \A r \in Reqs :
            /\ failure[r] # ClosedPoolError
            /\ (IsScan(r) /\ pc[r] = "done" /\ StorableCandidate(body[r])) =>
                  /\ r \in Accepted
                  /\ Len(RowsBy(r)) = 1

\* A POST /api/scan that passes both checks with a scanDateTime that is a
\* text but no instant.
UnparseableTimestamp(r) ==
    /\ IsScan(r) /\ ValidCandidate(body[r])
    /\ DateParse(body[r].scanDateTime.val) = NaN

\* C12 - Unparseable timestamp, as claimed: a POST /api/scan whose
\* scanDateTime is present but no instant, once ended without the store or
\* another request getting in its way, was answered 400 and wrote no row.
C12_UnparseableTimestampRejected ==
    \A r \in Reqs :
        (UnparseableTimestamp(r) /\ pc[r] = "done"
            /\ failure[r] \notin Errors \cup {ClosedPoolError}) =>
              /\ Len(sent[r]) = 1
              /\ sent[r][1].status = 400
              /\ RowsBy(r) = <<>>

\* sql.connect or the INSERT of request r has failed.
StorageFailure(r) == IsScan(r) /\ failure[r] # None /\ conn[r] \in {"failed", "held"}

\* C13 - Storage failures are surfaced and never retried: a POST /api/scan
\* calls request.query at most once and writes at most one row, on every
\* path; when sql.connect or the INSERT fails the handler ends there, having
\* answered once, with success: false and a status of 400 or more, and
\* without a row; and no request ends without a response.
C13_SurfacedNeverRetried ==
    \A r \in Reqs :
        /\ IsScan(r) =>
              /\ queries[r] <= 1
              /\ Len(RowsBy(r)) <= queries[r]
              /\ pc[r] = "done" => Len(sent[r]) >= 1
        /\ StorageFailure(r) =>
              /\ pc[r] = "done"
              /\ Len(sent[r]) = 1
              /\ sent[r][1].json.success = FALSE
              /\ sent[r][1].status >= 400
              /\ RowsBy(r) = <<>>
              /\ queries[r] = IF conn[r] = "held" THEN 1 ELSE 0

\* An insert has failed on a server error and a connect on a login error,
\* and both were answered.
C13_Witness ==
    \E r1, r2 \in Reqs :
        /\ StorageFailure(r1) /\ conn[r1] = "held"
        /\ failure[r1].number = Num(ForeignKeyViolation)
        /\ StorageFailure(r2) /\ conn[r2] = "failed"
        /\ failure[r2].code = Str(<<"ELOGIN">>)
        /\ Len(sent[r1]) = 1 /\ Len(sent[r2]) = 1

(***************************************************************************)
(*            FURTHER PROPERTIES OF THE CAPTURE SCREEN                     *)
(***************************************************************************)
heldVars == <<scanned, scannedData, scanTime>>
queuedVars == <<pending.scanned, pending.scannedData, pending.scanTime>>

\* C14 - Held candidate survives until reset: while the screen shows a
\* captured candidate (scanned = true is rendered), no step but resetScanner
\* (either 'Scan Again') changes the queued scanned, scannedData and
\* scanTime, and no step changes the rendered ones but the render that
\* commits a reset: dismissing the dialog with OK, flipping the camera,
\* further detections, focus changes and the clock leave the candidate as
\* it is.
C14_HeldUntilReset ==
    [][scanned =>
         /\ lastOp' \notin {"ScanAgain", "AlertScanAgain"} => UNCHANGED queuedVars
         /\ lastOp' # "Commit" => UNCHANGED heldVars
         /\ (lastOp' = "Commit" /\ pending.scanned) => UNCHANGED heldVars]_vars

\* The dialog was dismissed with OK after the camera had been flipped, and
\* the screen still shows the candidate, as will the next render.
C14_Witness ==
    /\ lastOp = "AlertOK" /\ alerts = 0
    /\ facing = "front"
    /\ scanned /\ scannedData \in Payloads /\ scanTime # EmptyTime
    /\ pending.scanned /\ pending.scannedData = scannedData

(***************************************************************************)
(*           FURTHER PROPERTIES OF THE INGESTION SERVICE                   *)
(***************************************************************************)
\* How many of the rows rs are the record x, and how many are of instant t.
CountOf(rs, x) == Cardinality({i \in DOMAIN rs : Columns(rs[i]) = x})
CountAt(rs, t) == Cardinality({i \in DOMAIN rs : rs[i].ScanDateTime = t})

\* The scans of the 200 response of request r.
Listed(r) == sent[r][1].json.scans

\* GET /api/scans of request r has answered 200.
ListAnswered(r) ==
    route[r] = "scans" /\ Len(sent[r]) = 1 /\ sent[r][1].status = 200

\* C15 - List recent: over a table of n ingested rows, GET /api/scans
\* answers success with count = min(n, 50) records, latest first; each is a
\* row of the table, none more often than the table holds it, and every row
\* later than the earliest one listed is listed (so all n are when n <= 50,
\* and exactly the 3 when n = 3).
C15_ListRecent ==
    \A r \in Reqs : ListAnswered(r) =>
        /\ sent[r][1].json.success
        /\ sent[r][1].json.count = Len(Listed(r))
        /\ Len(Listed(r)) = IF Len(table) < 50 THEN Len(table) ELSE 50
        /\ IsSortedDesc(Listed(r))
        /\ \A i \in DOMAIN Listed(r) :
              CountOf(Listed(r), Listed(r)[i]) <= CountOf(table, Listed(r)[i])
        /\ \A j \in DOMAIN table :
              (Listed(r) # <<>>
                 /\ table[j].ScanDateTime > Listed(r)[Len(Listed(r))].ScanDateTime) =>
                    CountAt(Listed(r), table[j].ScanDateTime)
                        = CountAt(table, table[j].ScanDateTime)
        /\ Len(table) = 3 =>
              \A j \in DOMAIN table :
                  CountOf(Listed(r), Columns(table[j])) = CountOf(table, Columns(table[j]))

\* Over a table of more than 50 rows, ingested earliest first, a list of 50
\* was answered: the latest one first, the earliest rows left out.
C15_Witness ==
    \E r \in Reqs :
        /\ ListAnswered(r)
        /\ Len(table) = TopLimit + MaxExtra
        /\ table[1].ScanDateTime < table[Len(table)].ScanDateTime
        /\ Len(Listed(r)) = TopLimit
        /\ Listed(r)[1] = Columns(table[Len(table)])
        /\ Listed(r)[TopLimit] = Columns(table[MaxExtra + 1])

\* A response that carries a recordedAt.
HasRecordedAt(response) ==
    "data" \in DOMAIN response.json /\ "recordedAt" \in DOMAIN response.json.data

\* C16 - Timestamp authority and ordering: a response of POST /api/scan
\* carries recordedAt only if it is the 201, sent when the store had
\* acknowledged the insert (the row is in the table); recordedAt is then the
\* server's clock text, also when the body carried a recordedAt of its own;
\* and the scanDateTime of the 201 is the body's, not the server's.
C16_TimestampAuthority ==
    \A r \in Reqs : IsScan(r) =>
        \A i \in DOMAIN sent[r] :
            /\ HasRecordedAt(sent[r][i]) <=> sent[r][i].status = 201
            /\ sent[r][i].status = 201 =>
                  /\ InsertAcknowledged(r) /\ Len(RowsBy(r)) = 1
                  /\ sent[r][i].json.success
                  /\ sent[r][i].json.data.recordedAt = ServerNow
                  /\ sent[r][i].json.data.recordedAt # body[r].recordedAt
                  /\ sent[r][i].json.data.scanDateTime = body[r].scanDateTime
                  /\ sent[r][i].json.data.scanDateTime # ServerNow
            /\ sent[r][i].status # 201 => ~sent[r][i].json.success

\* A candidate that carried a recordedAt of its own was answered 201, and
\* another request failed on the store.
C16_Witness ==
    \E r1, r2 \in Reqs :
        /\ IsScan(r1) /\ r1 \in Accepted
        /\ body[r1].recordedAt = Str(<<"client time">>)
        /\ sent[r1][1].json.data.recordedAt = ServerNow
        /\ IsScan(r2) /\ StorageFailure(r2) /\ conn[r2] = "held"

\* C17 - Exactly one response per request, as claimed: a POST /api/scan that
\* has ended has sent one response, and its handler has not tried to send
\* another: no res.json was called after the headers were sent, also when
\* pool.close() rejected after the 201.
C17_ExactlyOneResponse ==
    \A r \in Reqs :
        (IsScan(r) /\ pc[r] = "done") =>
            /\ Len(sent[r]) = 1
            /\ ~thrown[r]

\* C18 - Acknowledgement matches the stored record, as claimed: the scanType
\* in the data of a 201 response is the BarcodeType of the row its request
\* has written, "UNKNOWN" included.
C18_AcknowledgedScanTypeIsStored ==
    \A r \in Reqs :
        (IsScan(r) /\ r \in Accepted /\ Len(RowsBy(r)) = 1) =>
            sent[r][1].json.data.scanType = Str(RowsBy(r)[1].BarcodeType)

(***************************************************************************)
(*              INVARIANT OF THE CAPTURE SCREEN'S STATE                    *)
(***************************************************************************)
\* A state of the three capture hooks that is Idle and empty, or Captured
\* with a payload and the text of an instant not after t.
WellFormedCapture(s, t) ==
    /\ ~s.scanned => s.scannedData = EmptyData /\ s.scanTime = EmptyTime
    /\ s.scanned =>
          /\ s.scannedData \in Payloads
          /\ s.scanTime # EmptyTime
          /\ \E u \in 0 .. t : s.scanTime = FormatTime(u)

\* C19 - Idle holds nothing: in every state, of the rendered values and of
\* the queued ones alike, scanned = false comes with scannedData = '' and
\* scanTime = '', and scanned = true with a payload and a non-empty scanTime
\* that is the text of an instant up to now; when one candidate was produced
\* since the last reset, the values shown are that candidate's payload and
\* capture time.
C19_IdleHoldsNothing ==
    /\ WellFormedCapture(Rendered, now)
    /\ WellFormedCapture(pending, now)
    /\ (scanned /\ produced = 1) =>
          /\ scannedData = first.data
          /\ scanTime = first.time

\* A captured candidate was discarded with the panel's 'Scan Again' while
\* its dialog was still open, the camera was flipped, and the last render
\* shows an empty Idle screen.
C19_Witness ==
    /\ lastOp = "Commit" /\ pending = Rendered
    /\ ~scanned /\ scannedData = EmptyData /\ scanTime = EmptyTime
    /\ alerts > 0 /\ produced = 0
    /\ facing = "front" /\ now > 0

====
